---- MODULE Spec2Model ----
(***************************************************************************)
(* Model of launch_on_please.py: the candidate scanner                     *)
(* (pick_best_window_by), the acquisition loop (wait_for_stable_window),   *)
(* the placement engine (move_and_set), the drift watchdog                 *)
(* (ensure_on_target), the headless core (run_headless) and the command    *)
(* line entry point (main), running against a window manager whose windows *)
(* are created, moved, hidden and destroyed by other processes.            *)
(*                                                                         *)
(* Time is in milliseconds.  Rectangles are <<left, top, right, bottom>>.  *)
(***************************************************************************)
EXTENDS Integers, Sequences, FiniteSets, TLC

VARIABLES
    win,          \* the OS window table: handle -> window record
    exeIsFile,    \* os.path.isfile(exe) as main() sees it
    monitorArg,   \* args.monitor (None when --monitor is missing)
    mode,         \* args.mode
    observe,      \* args.observe, seconds
    early,        \* the EARLY_MOVE_ON_DETECT setting
    pc,           \* position of the program
    now,          \* time.time(), ms since the start of the run
    polls,        \* sleeps of the current polling loop that took exactly their interval
    ext,          \* number of external window events so far
    attempt,      \* which acquisition attempt is running: "none" | "primary" | "relaxed"
    before,       \* run_headless: snapshot of visible windows taken before launch
    pid_set,      \* run_headless: owned process ids
    hmon_target,  \* run_headless: the target monitor handle
    deadline,     \* wait_for_stable_window: deadline
    cand,         \* wait_for_stable_window: result of the last select_fn()
    w_hwnd,       \* wait_for_stable_window: tracked handle (stable path)
    last_rect,    \* wait_for_stable_window: baseline rectangle (stable path)
    stable_time,  \* wait_for_stable_window: number of POLL_INTERVAL additions to stable_time
    hwnd,         \* run_headless: the acquired handle
    was_maximized,\* move_and_set: local
    ms_size,      \* move_and_set: <<cur_w, cur_h>> computed for mode normal
    ms_ret,       \* move_and_set: the caller to return to
    until,        \* ensure_on_target: deadline
    last,         \* ensure_on_target: last rectangle
    cur_hmon,     \* ensure_on_target: monitor of the window at this poll
    cur_rect,     \* ensure_on_target: rectangle of the window at this poll
    exitCode,     \* process exit code (Running until the process exits)
    gui,          \* MainWindow: widgets, message boxes and LaunchWorker threads
    fn,           \* argument and result of a function that is applied on its own
    hist          \* observations of the run (history, read by no step of the program)

vars == <<win, exeIsFile, monitorArg, mode, observe, early, pc, now,
          polls, ext, attempt, before, pid_set, hmon_target, deadline, cand,
          w_hwnd, last_rect, stable_time, hwnd, was_maximized, ms_size, ms_ret,
          until, last, cur_hmon, cur_rect, exitCode, gui, fn, hist>>

NoHwnd == 0        \* a handle that is None
NoRect == << >>    \* a rectangle that is None
NoArg == << >>     \* a command line option that was not given
Running == -1      \* exitCode of a process that has not exited

(***************************************************************************)
(* Settings (module constants of the program).                             *)
(***************************************************************************)
POLL_INTERVAL == 50
RECT_TOL == 3
WAIT_TIMEOUT_SEC == 45
RELAXED_TIMEOUT_SEC == 10
STABLE_MS_BEFORE_MOVE == 400
EARLY_MOVE_ON_DETECT == TRUE
DEFAULT_MODE == "maximize"
DEFAULT_OBSERVE == 4
MIN_W == 200
MIN_H == 150

(***************************************************************************)
(* Bounds of the model.                                                    *)
(***************************************************************************)
MaxPolls == 2        \* sleeps per polling loop that take exactly POLL_INTERVAL
MaxStablePolls == 10 \* the same, for the loop of the stability policy
MaxExt == 2          \* external window events per run
MaxClicks == 3       \* LaunchWorker threads started per session of the main window

Handles == {1, 2}

Abs(x) == IF x < 0 THEN -x ELSE x
Max(a, b) == IF a >= b THEN a ELSE b
Min(a, b) == IF a <= b THEN a ELSE b

(***************************************************************************)
(* Monitors.  Two displays side by side, each with a 40 px task bar.       *)
(***************************************************************************)
MonitorsUnsorted ==
    << [hmon |-> 11, rect |-> <<1920, 0, 3840, 1080>>, work |-> <<1920, 0, 3840, 1040>>],
       [hmon |-> 10, rect |-> <<0, 0, 1920, 1080>>,    work |-> <<0, 0, 1920, 1040>>] >>

MonKeyLE(a, b) ==
    \/ a.rect[1] < b.rect[1]
    \/ a.rect[1] = b.rect[1] /\ a.rect[2] <= b.rect[2]

RECURSIVE InsertMonitor(_, _)
\* stable insertion of x into the sorted sequence s
InsertMonitor(x, s) ==
    IF s = << >> THEN << x >>
    ELSE IF MonKeyLE(Head(s), x) THEN << Head(s) >> \o InsertMonitor(x, Tail(s))
    ELSE << x >> \o s

RECURSIVE SortMonitors(_)
\* monitors.sort(key=lambda x: (x[1][0], x[1][1]))
SortMonitors(s) ==
    IF s = << >> THEN << >>
    ELSE InsertMonitor(s[Len(s)], SortMonitors(SubSeq(s, 1, Len(s) - 1)))

enum_monitors_sorted == SortMonitors(MonitorsUnsorted)

HMons == { MonitorsUnsorted[i].hmon : i \in 1..Len(MonitorsUnsorted) }

MonOf(hm) == CHOOSE m \in { MonitorsUnsorted[i] : i \in 1..Len(MonitorsUnsorted) } : m.hmon = hm

workarea_for_hmon(hm) == MonOf(hm).work

\* area of the intersection of two rectangles
Overlap(a, b) ==
    LET w == Min(a[3], b[3]) - Max(a[1], b[1])
        h == Min(a[4], b[4]) - Max(a[2], b[2])
    IN IF w > 0 /\ h > 0 THEN w * h ELSE 0

\* distance of a rectangle from a monitor rectangle (0 when they touch)
Gap(a, m) ==
    Max(0, Max(m[1] - a[3], a[1] - m[3])) + Max(0, Max(m[2] - a[4], a[2] - m[4]))

\* MonitorFromRect(r, MONITOR_DEFAULTTONEAREST): the monitor with the largest
\* intersection, the nearest one when the rectangle intersects none
MonitorFromRect(r) ==
    LET mons == { MonitorsUnsorted[i] : i \in 1..Len(MonitorsUnsorted) }
        hit  == { m \in mons : Overlap(r, m.rect) > 0 }
    IN IF hit # {}
       THEN (CHOOSE m \in hit : \A o \in hit :
                 \/ Overlap(r, m.rect) > Overlap(r, o.rect)
                 \/ Overlap(r, m.rect) = Overlap(r, o.rect) /\ m.hmon <= o.hmon).hmon
       ELSE (CHOOSE m \in mons : \A o \in mons :
                 \/ Gap(r, m.rect) < Gap(r, o.rect)
                 \/ Gap(r, m.rect) = Gap(r, o.rect) /\ m.hmon <= o.hmon).hmon

(***************************************************************************)
(* Windows.  A window record:                                              *)
(*   alive    the handle names an existing window (IsWindow)               *)
(*   gone     the window was destroyed                                     *)
(*   visible  WS_VISIBLE (IsWindowVisible)                                 *)
(*   style    the set of GWL_STYLE bits that are set                       *)
(*   tool     WS_EX_TOOLWINDOW is set in GWL_EXSTYLE                       *)
(*   rect     GetWindowRect                                                *)
(*   normal   the restored rectangle (rcNormalPosition)                    *)
(*   show     "normal" | "max" | "min" (GetWindowPlacement showCmd)        *)
(*   pid      owning process id                                            *)
(*   name     lower-cased executable name of the owning process            *)
(***************************************************************************)
WS_OVERLAPPED == {}
WS_CAPTION == {"BORDER", "DLGFRAME"}
WS_SYSMENU == {"SYSMENU"}
WS_THICKFRAME == {"THICKFRAME"}
WS_MINIMIZEBOX == {"MINIMIZEBOX"}
WS_MAXIMIZEBOX == {"MAXIMIZEBOX"}
WS_POPUP == {"POPUP"}

WS_OVERLAPPEDWINDOW ==
    WS_OVERLAPPED \cup WS_CAPTION \cup WS_SYSMENU \cup WS_THICKFRAME
        \cup WS_MINIMIZEBOX \cup WS_MAXIMIZEBOX

ParentPid == 100
ChildPid == 101
OtherPid == 200
ExeBase == "app.exe"
OtherExe == "other.exe"

\* rect(hwnd): None when GetWindowRect raises
rect(w, h) == IF h \in Handles /\ w[h].alive THEN w[h].rect ELSE NoRect

rect_changed(a, b) ==
    IF a = NoRect \/ b = NoRect THEN TRUE
    ELSE \E i \in 1..4 : Abs(a[i] - b[i]) > RECT_TOL

\* (style & WS_OVERLAPPEDWINDOW) and not is_tool; False when GetWindowLong raises
is_main_style(w, h) ==
    IF ~w[h].alive THEN FALSE
    ELSE (w[h].style \cap WS_OVERLAPPEDWINDOW) # {} /\ ~w[h].tool

list_top_windows(w) == { h \in Handles : w[h].alive /\ w[h].visible }

\* None (0) when GetWindowThreadProcessId fails
hwnd_pid(w, h) == IF w[h].alive THEN w[h].pid ELSE 0

hwnd_exe_name(w, h) == IF hwnd_pid(w, h) = 0 THEN "" ELSE w[h].name

\* a name match sets the score to 500 where the code adds 500
Score_NameSets(w, h, pids, exe, since) ==
      (IF exe # "" /\ hwnd_exe_name(w, h) = exe THEN 500
       ELSE IF pids # {} /\ hwnd_pid(w, h) \in pids THEN 1000 ELSE 0)
    + (IF since # {} /\ h \notin since THEN 200 ELSE 0)

\* the 200 of a new window are given only when no process and no name is asked for
Score_NoveltyAlone(w, h, pids, exe, since) ==
      (IF pids # {} /\ hwnd_pid(w, h) \in pids THEN 1000 ELSE 0)
    + (IF exe # "" /\ hwnd_exe_name(w, h) = exe THEN 500 ELSE 0)
    + (IF since # {} /\ pids = {} /\ exe = "" /\ h \notin since THEN 200 ELSE 0)

\* the score the enumeration callback gives a window that passed the filters
Score(w, h, pids, exe, since) ==
      (IF pids # {} /\ hwnd_pid(w, h) \in pids THEN 1000 ELSE 0)
    + (IF exe # "" /\ hwnd_exe_name(w, h) = exe THEN 500 ELSE 0)
    + (IF since # {} /\ h \notin since THEN 200 ELSE 0)

\* the filters of the enumeration callback
Filtered(w, h) ==
    /\ w[h].alive /\ w[h].visible
    /\ is_main_style(w, h)
    /\ ~(w[h].rect[3] - w[h].rect[1] < MIN_W \/ w[h].rect[4] - w[h].rect[2] < MIN_H)

Area(w, h) == (w[h].rect[3] - w[h].rect[1]) * (w[h].rect[4] - w[h].rect[2])

\* the handles the enumeration callback appends to candidates
Scored(w, pids, exe, since) ==
    { h \in Handles : Filtered(w, h) /\ Score(w, h, pids, exe, since) > 0 }

RECURSIVE Candidates(_, _, _, _, _)
\* the candidates list after EnumWindows has called back for the handles of order
Candidates(w, order, pids, exe, since) ==
    IF order = << >> THEN << >>
    ELSE LET h == order[Len(order)]
             rest == Candidates(w, SubSeq(order, 1, Len(order) - 1), pids, exe, since)
         IN IF Filtered(w, h) /\ Score(w, h, pids, exe, since) > 0
            THEN Append(rest, << Score(w, h, pids, exe, since), Area(w, h), h >>)
            ELSE rest

\* a sort by the score alone
CandKeyGE_ScoreOnly(a, b) == a[1] >= b[1]

\* key order of candidates.sort(key=lambda x: (x[0], x[1]), reverse=True)
CandKeyGE(a, b) == a[1] > b[1] \/ (a[1] = b[1] /\ a[2] >= b[2])

RECURSIVE InsertCandidate(_, _)
\* stable insertion of x into the descending sequence s
InsertCandidate(x, s) ==
    IF s = << >> THEN << x >>
    ELSE IF CandKeyGE(Head(s), x) THEN << Head(s) >> \o InsertCandidate(x, Tail(s))
    ELSE << x >> \o s

RECURSIVE SortCandidates(_)
SortCandidates(s) ==
    IF s = << >> THEN << >>
    ELSE InsertCandidate(s[Len(s)], SortCandidates(SubSeq(s, 1, Len(s) - 1)))

\* pids = {} stands for pid_set=None, exe = "" for exe_base=None; the result is
\* NoHwnd when there is no candidate
pick_best_window_by(w, order, pids, exe, since) ==
    LET cs == SortCandidates(Candidates(w, order, pids, exe, since))
    IN IF cs = << >> THEN NoHwnd ELSE cs[1][3]

(***************************************************************************)
(* Window manager calls.  Each returns the new window table.               *)
(***************************************************************************)
\* ShowWindow(hwnd, SW_RESTORE) and ShowWindow(hwnd, SW_SHOWNORMAL): the window
\* is shown in its restored rectangle; no effect (and no exception) on a
\* handle that is no longer a window
ShowNormal(w, h) ==
    IF ~w[h].alive THEN w
    ELSE [w EXCEPT ![h].show = "normal", ![h].visible = TRUE, ![h].rect = w[h].normal]

\* ShowWindow(hwnd, SW_MAXIMIZE): the window fills the work area of the monitor
\* it is on; no effect (and no exception) on a handle that is no longer a window
ShowMaximized(w, h) ==
    IF ~w[h].alive THEN w
    ELSE [w EXCEPT ![h].show = "max", ![h].visible = TRUE,
                   ![h].rect = workarea_for_hmon(MonitorFromRect(w[h].rect))]

\* SetWindowPos(hwnd, None, x, y, cx, cy, NOZORDER|NOACTIVATE|FRAMECHANGED) on a
\* live window (it raises on a handle that is no longer a window)
SetWindowPos(w, h, x, y, cx, cy) ==
    IF w[h].show = "normal"
    THEN [w EXCEPT ![h].rect = <<x, y, x + cx, y + cy>>, ![h].normal = <<x, y, x + cx, y + cy>>]
    ELSE [w EXCEPT ![h].rect = <<x, y, x + cx, y + cy>>]

\* MonitorFromWindow(hwnd, MONITOR_DEFAULTTONEAREST) for a live window
MonitorFromWindow(w, h) ==
    MonitorFromRect(IF w[h].show = "min" THEN w[h].normal ELSE w[h].rect)

(***************************************************************************)
(* Initial state: the command line of one invocation and the desktop it    *)
(* runs on.  Window 1 is the main window of the launched application,      *)
(* either created by the launched process tree or already open in an older *)
(* instance; window 2 belongs to another application.                      *)
(***************************************************************************)
OldPid == 300
AppRect == <<100, 100, 900, 700>>
OtherRect == <<2000, 100, 3000, 800>>

Window(isOpen, pid, name, r) ==
    [alive |-> isOpen, gone |-> FALSE, visible |-> isOpen, style |-> WS_OVERLAPPEDWINDOW, tool |-> FALSE,
     rect |-> r, normal |-> r, show |-> "normal", pid |-> pid, name |-> name]

InitTables ==
    { [h \in Handles |-> IF h = 1 THEN a ELSE b] :
        a \in { Window(FALSE, ChildPid, ExeBase, AppRect), Window(TRUE, OldPid, ExeBase, AppRect) },
        b \in { Window(FALSE, OtherPid, OtherExe, OtherRect), Window(TRUE, OtherPid, OtherExe, OtherRect) } }

\* EnumWindows calls back in this order
EnumOrder == <<1, 2>>

Modes == {"maximize", "workarea", "normal"}
MonitorArgs == {NoArg, <<-1>>, <<0>>, <<1>>, <<2>>}
ObserveArgs == {-1, 0, 4}

\* the main window before any input: both buttons enabled, no worker
GuiIdle ==
    [launch_btn |-> TRUE, shortcut_btn |-> TRUE, exeOk |-> FALSE, idx |-> 0,
     dialogs |-> << >>, workers |-> << >>]

FnIdle == [arg |-> NoRect, res |-> NoRect]

InitHist ==
    [launched |-> FALSE, scanned |-> FALSE, relaxed |-> FALSE, primary |-> -1,
     hits |-> 0, firstHit |-> NoHwnd, afterHit |-> 0, results |-> << >>, placeCalls |-> 0, placedOn |-> {},
     applied |-> FALSE, initDone |-> FALSE, watching |-> FALSE, lost |-> FALSE,
     touched |-> FALSE, applied_rect |-> NoRect, trigger |-> "", counted |-> 0,
     offTarget |-> FALSE, seqOk |-> FALSE, cmds |-> << >>, why |-> "",
     noneBefore |-> FALSE, resumed |-> FALSE, polled |-> {}, seenBefore |-> {}]

Init ==
    /\ win \in InitTables
    /\ exeIsFile \in BOOLEAN
    /\ monitorArg \in MonitorArgs
    /\ mode \in Modes
    /\ observe \in ObserveArgs
    /\ early = EARLY_MOVE_ON_DETECT
    /\ pc = "main"
    /\ now = 0
    /\ polls = 0
    /\ ext = 0
    /\ attempt = "none"
    /\ before = {}
    /\ pid_set = {}
    /\ hmon_target = 0
    /\ deadline = 0
    /\ cand = NoHwnd
    /\ w_hwnd = NoHwnd
    /\ last_rect = NoRect
    /\ stable_time = 0
    /\ hwnd = NoHwnd
    /\ was_maximized = FALSE
    /\ ms_size = <<0, 0>>
    /\ ms_ret = ""
    /\ until = 0
    /\ last = NoRect
    /\ cur_hmon = 0
    /\ cur_rect = NoRect
    /\ exitCode = Running
    /\ gui = GuiIdle
    /\ fn = FnIdle
    /\ hist = InitHist

(***************************************************************************)
(* Variable groups.                                                        *)
(***************************************************************************)
\* the headless core writes none of these
argVars == <<exeIsFile, monitorArg, mode, observe, early, gui, fn>>
rhVars == <<attempt, before, pid_set, hmon_target, hwnd>>
waitVars == <<deadline, cand, w_hwnd, last_rect, stable_time>>
msVars == <<was_maximized, ms_size, ms_ret>>
eoVars == <<until, last, cur_hmon, cur_rect>>

\* sys.exit(code)
Exit(code, why) ==
    /\ pc' = "exit"
    /\ exitCode' = code
    /\ hist' = [hist EXCEPT !.why = why]

\* time.sleep(POLL_INTERVAL) in a loop that runs until the time d: the sleep
\* takes the interval, or the process is not scheduled again before d
Sleep(d) ==
    \/ /\ polls < (IF early THEN MaxPolls ELSE MaxStablePolls)
       /\ now' = now + POLL_INTERVAL
       /\ polls' = polls + 1
    \/ /\ now' = Max(now + POLL_INTERVAL, d)
       /\ polls' = polls

(***************************************************************************)
(* main                                                                    *)
(***************************************************************************)
Main ==
    /\ pc = "main"
    /\ IF ~exeIsFile THEN Exit(2, "exe")
       ELSE IF monitorArg = NoArg THEN Exit(2, "nomonitor")
       ELSE pc' = "rh_enum" /\ UNCHANGED <<exitCode, hist>>
    /\ UNCHANGED <<win, argVars, now, polls, ext, rhVars, waitVars, msVars, eoVars>>

(***************************************************************************)
(* run_headless, up to the first acquisition attempt.  An exception that   *)
(* leaves run_headless is caught by main, which exits with code 1.         *)
(***************************************************************************)
\* a range test that forgets the negative indexes
MonitorIndexBad_NoNegative(idx, mons) == idx >= Len(mons)

MonitorIndexBad(idx, mons) == idx < 0 \/ idx >= Len(mons)

\* seq[i] of a Python list (a negative index counts from the end)
PyIndex(seq, i) == IF i < 0 THEN seq[Len(seq) + i + 1] ELSE seq[i + 1]

RhEnum ==
    /\ pc = "rh_enum"
    /\ LET mons == enum_monitors_sorted
           idx == monitorArg[1]
       IN IF mons = << >> THEN Exit(1, "nomonitors") /\ UNCHANGED hmon_target
          ELSE IF MonitorIndexBad(idx, mons) THEN Exit(1, "range") /\ UNCHANGED hmon_target
          ELSE /\ hmon_target' = PyIndex(mons, idx).hmon
               /\ pc' = "rh_before"
               /\ UNCHANGED <<exitCode, hist>>
    /\ UNCHANGED <<win, argVars, now, polls, ext, attempt, before, pid_set, hwnd,
                   waitVars, msVars, eoVars>>

RhSnapshot ==
    /\ pc = "rh_before"
    /\ before' = list_top_windows(win)
    /\ pc' = "rh_popen"
    /\ UNCHANGED <<win, argVars, now, polls, ext, attempt, pid_set, hmon_target, hwnd,
                   waitVars, msVars, eoVars, exitCode, hist>>

\* subprocess.Popen starts the process or raises OSError
RhPopen ==
    /\ pc = "rh_popen"
    /\ \/ /\ pc' = "rh_inspect"
          /\ hist' = [hist EXCEPT !.launched = TRUE]
          /\ UNCHANGED exitCode
       \/ Exit(1, "launch")
    /\ UNCHANGED <<win, argVars, now, polls, ext, rhVars, waitVars, msVars, eoVars>>

\* psutil.Process(proc.pid) raises when the process is already gone
RhInspect ==
    /\ pc = "rh_inspect"
    /\ \/ pc' = "rh_children" /\ UNCHANGED <<exitCode, hist>>
       \/ Exit(1, "inspect")
    /\ UNCHANGED <<win, argVars, now, polls, ext, rhVars, waitVars, msVars, eoVars>>

\* 15 samples of parent.children(), 50 ms apart
RhChildren ==
    /\ pc = "rh_children"
    /\ pid_set' \in { {ParentPid}, {ParentPid, ChildPid} }
    /\ now' = now + 15 * 50
    /\ pc' = "rh_primary"
    /\ UNCHANGED <<win, argVars, polls, ext, attempt, before, hmon_target, hwnd,
                   waitVars, msVars, eoVars, exitCode, hist>>

\* entry of wait_for_stable_window(select_fn, timeout)
WaitEnter(which, timeout) ==
    /\ attempt' = which
    /\ deadline' = now + timeout * 1000
    /\ last_rect' = NoRect
    /\ stable_time' = 0
    /\ w_hwnd' = NoHwnd
    /\ cand' = NoHwnd
    /\ polls' = 0
    /\ pc' = "w_loop"

RhPrimary ==
    /\ pc = "rh_primary"
    /\ WaitEnter("primary", WAIT_TIMEOUT_SEC)
    /\ hist' = [hist EXCEPT !.hits = 0, !.firstHit = NoHwnd, !.afterHit = 0, !.counted = 0]
    /\ UNCHANGED <<win, argVars, now, ext, before, pid_set, hmon_target, hwnd,
                   msVars, eoVars, exitCode>>

(***************************************************************************)
(* wait_for_stable_window                                                  *)
(***************************************************************************)
\* select() and select_new_only() of run_headless
select(w) ==
    IF attempt = "primary"
    THEN pick_best_window_by(w, EnumOrder, pid_set, ExeBase, before)
    ELSE pick_best_window_by(w, EnumOrder, {}, "", before)

\* the accumulated stable_time after n additions of POLL_INTERVAL / 1000.0 is
\* n * fl(0.05) + StableTimeErr[n] * 2^-57 in IEEE double arithmetic
StableTimeErr == <<0, 0, 2, 0, -2, -4, -6, -8, -10, -12, -14, -8>>

\* a threshold of one counted poll
StableReached_One(n) == n >= 1

\* stable_time >= stable_needed, where stable_needed = fl(0.4) = 8 * fl(0.05)
StableReached(n) ==
    LET k == (STABLE_MS_BEFORE_MOVE \div POLL_INTERVAL)
    IN IF n = 0 THEN FALSE
       ELSE IF n > Len(StableTimeErr) THEN TRUE
       ELSE n > k \/ (n = k /\ StableTimeErr[n] >= 0)

\* the reset condition of the stable path
StableReset(c, tracked, cur, base) ==
    base = NoRect \/ c # tracked \/ rect_changed(cur, base)

\* a loop that keeps polling
EarlyReturns_Never(c) == FALSE

\* the early-detect loop returns the candidate as soon as there is one
EarlyReturns(c) == c # NoHwnd

\* a poll without a candidate starts the count again
AfterNone_Reset(n) == 0

\* stable_time after a poll of the stable path in which select_fn() returned
\* none: the branch sleeps and continues
AfterNone(n) == n

\* a wait without a timeout
BeforeDeadline_Always(t, d) == TRUE

\* time.time() < deadline
BeforeDeadline(t, d) == t < d

\* one iteration of either loop up to the scan: the deadline test and select_fn()
WaitPoll ==
    /\ pc = "w_loop"
    /\ IF ~BeforeDeadline(now, deadline)
       THEN /\ hwnd' = NoHwnd
            /\ pc' = "rh_got"
            /\ hist' = [hist EXCEPT !.results = Append(@, NoHwnd)]
            /\ UNCHANGED <<cand, stable_time>>
       ELSE LET c == select(win) IN
            /\ cand' = c
            /\ stable_time' = IF ~early /\ c = NoHwnd THEN AfterNone(stable_time) ELSE stable_time
            /\ hist' = [hist EXCEPT !.scanned = TRUE,
                                    !.polled = IF early /\ attempt = "primary"
                                               THEN @ \cup Scored(win, pid_set, ExeBase, before)
                                               ELSE @,
                                    !.noneBefore = @ \/ (~early /\ c = NoHwnd),
                                    !.hits = IF c # NoHwnd THEN @ + 1 ELSE @,
                                    !.afterHit = IF hist.firstHit # NoHwnd THEN @ + 1 ELSE @,
                                    !.firstHit = IF @ = NoHwnd THEN c ELSE @,
                                    !.results = IF early /\ EarlyReturns(c) THEN Append(@, c) ELSE @]
            /\ IF early
               THEN IF EarlyReturns(c)
                    THEN hwnd' = c /\ pc' = "rh_got"
                    ELSE hwnd' = hwnd /\ pc' = "w_sleep"
               ELSE /\ hwnd' = hwnd
                    /\ pc' = IF c = NoHwnd THEN "w_sleep" ELSE "w_rect"
    /\ UNCHANGED <<win, argVars, now, polls, ext, attempt, before, pid_set, hmon_target,
                   deadline, w_hwnd, last_rect, msVars, eoVars, exitCode>>

\* stable path: rect(cand), the reset-or-count step and the return test
WaitRect ==
    /\ pc = "w_rect"
    /\ LET cur == rect(win, cand)
           reset == StableReset(cand, w_hwnd, cur, last_rect)
           st == IF reset THEN 0 ELSE stable_time + 1
           h == IF reset THEN cand ELSE w_hwnd
           counts == /\ cand = w_hwnd
                     /\ cur # NoRect /\ last_rect # NoRect
                     /\ \A i \in 1..4 : cur[i] - last_rect[i] \in (0 - RECT_TOL)..RECT_TOL
       IN /\ w_hwnd' = h
          /\ last_rect' = IF reset THEN cur ELSE last_rect
          /\ stable_time' = st
          /\ hist' = [hist EXCEPT !.counted = IF counts THEN @ + 1 ELSE 0,
                                  !.resumed = IF reset THEN FALSE ELSE @ \/ hist.noneBefore,
                                  !.noneBefore = FALSE,
                                  !.results = IF StableReached(st) THEN Append(@, h) ELSE @]
          /\ IF StableReached(st)
             THEN hwnd' = h /\ pc' = "rh_got"
             ELSE hwnd' = hwnd /\ pc' = "w_sleep"
    /\ UNCHANGED <<win, argVars, now, polls, ext, attempt, before, pid_set, hmon_target,
                   deadline, cand, msVars, eoVars, exitCode>>

\* history: the candidates of the primary scan at the time a sleep of the
\* early-detect loop starts
WaitSleep ==
    /\ pc = "w_sleep"
    /\ Sleep(deadline)
    /\ pc' = "w_loop"
    /\ hist' = [hist EXCEPT !.seenBefore = IF early /\ attempt = "primary" /\ now < deadline
                                           THEN @ \cup Scored(win, pid_set, ExeBase, before)
                                           ELSE @]
    /\ UNCHANGED <<win, argVars, ext, rhVars, waitVars, msVars, eoVars, exitCode>>

\* a wait that returns none after the relaxed attempt is never followed by
\* another attempt
RhDecision_Retry(h, which) == IF h # NoHwnd THEN "place" ELSE "relaxed"

\* the two tests of the acquired handle in run_headless: after the primary
\* attempt "if not hwnd" starts the relaxed one, after either "if not hwnd" raises
RhDecision(h, which) ==
    IF h # NoHwnd THEN "place"
    ELSE IF which = "primary" THEN "relaxed"
    ELSE "fail"

RhGot ==
    /\ pc = "rh_got"
    /\ LET d == RhDecision(hwnd, attempt) IN
       IF d = "place"
       THEN /\ pc' = "ms_placement"
            /\ ms_ret' = "rh"
            /\ hist' = [hist EXCEPT !.primary = IF attempt = "primary" THEN hwnd ELSE @,
                                    !.placeCalls = @ + 1,
                                    !.placedOn = @ \cup {hwnd},
                                    !.touched = FALSE, !.seqOk = TRUE, !.cmds = << >>]
            /\ UNCHANGED <<attempt, waitVars, polls, exitCode>>
       ELSE IF d = "relaxed"
       THEN /\ WaitEnter("relaxed", RELAXED_TIMEOUT_SEC)
            /\ hist' = [hist EXCEPT !.primary = NoHwnd, !.relaxed = TRUE,
                                    !.hits = 0, !.firstHit = NoHwnd, !.afterHit = 0,
                                    !.counted = 0]
            /\ UNCHANGED <<ms_ret, exitCode>>
       ELSE /\ Exit(1, "notfound")
            /\ UNCHANGED <<attempt, waitVars, polls, ms_ret>>
    /\ UNCHANGED <<win, argVars, now, ext, before, pid_set, hmon_target, hwnd,
                   was_maximized, ms_size, eoVars>>

(***************************************************************************)
(* move_and_set(hwnd, hmon_target, mode).  pywin32 raises from             *)
(* GetWindowPlacement and SetWindowPos when the call fails; ShowWindow     *)
(* returns its result.  Nothing between the call and main catches.         *)
(***************************************************************************)
Raise == Exit(1, "placement")

\* the window is sized to the work area less the margins
NormalSize_Fit(cur, wa) == <<(wa[3] - wa[1]) - 40, (wa[4] - wa[2]) - 40>>

\* every call takes ten pixels off each side length
NormalSize_Shrink(cur, wa) ==
    IF cur = NoRect THEN <<1000, 700>>
    ELSE << Max(300, Min((cur[3] - cur[1]) - 10, (wa[3] - wa[1]) - 40)),
            Max(200, Min((cur[4] - cur[2]) - 10, (wa[4] - wa[2]) - 40)) >>

\* <<cur_w, cur_h>> of mode normal
NormalSize(cur, wa) ==
    IF cur = NoRect THEN <<1000, 700>>
    ELSE << Max(300, Min(cur[3] - cur[1], (wa[3] - wa[1]) - 40)),
            Max(200, Min(cur[4] - cur[2], (wa[4] - wa[2]) - 40)) >>

\* <<park_x, park_y, park_w, park_h>>
ParkRect(wa) ==
    LET wa_w == wa[3] - wa[1]
        wa_h == wa[4] - wa[2]
        park_w == Min(1200, Max(800, wa_w - 200))
        park_h == Min(900, Max(600, wa_h - 200))
    IN << wa[1] + Max(20, (wa_w - park_w) \div 2),
          wa[2] + Max(20, (wa_h - park_h) \div 3), park_w, park_h >>

\* the width and height are the corner coordinates
FillRect_Corners(wa) == wa

\* <<x, y, cx, cy>> of the SetWindowPos of mode workarea
FillRect(wa) == <<wa[1], wa[2], wa[3] - wa[1], wa[4] - wa[2]>>

\* every mode parks
AfterShow_Park(m) == "ms_park"

\* mode normal returns from its own branch, the other modes go on to park
AfterShow(m) == IF m = "normal" THEN "ms_rect" ELSE "ms_park"

\* the call took effect on a window (history)
Applied(name) ==
    [hist EXCEPT !.applied = @ \/ win[hwnd].alive,
                 !.seqOk = @ /\ win[hwnd].alive,
                 !.cmds = Append(@, name)]

MsPlacement ==
    /\ pc = "ms_placement"
    /\ IF ~win[hwnd].alive
       THEN Raise /\ UNCHANGED was_maximized
       ELSE /\ was_maximized' = (win[hwnd].show = "max")
            /\ pc' = "ms_show"
            /\ UNCHANGED <<exitCode, hist>>
    /\ UNCHANGED <<win, argVars, now, polls, ext, rhVars, waitVars, ms_size, ms_ret, eoVars>>

MsShow ==
    /\ pc = "ms_show"
    /\ win' = ShowNormal(win, hwnd)
    /\ now' = IF was_maximized THEN now + 50 ELSE now
    /\ hist' = Applied("show")
    /\ pc' = AfterShow(mode)
    /\ UNCHANGED <<argVars, polls, ext, rhVars, waitVars, msVars, eoVars, exitCode>>

MsRect ==
    /\ pc = "ms_rect"
    /\ ms_size' = NormalSize(rect(win, hwnd), workarea_for_hmon(hmon_target))
    /\ pc' = "ms_setpos"
    /\ UNCHANGED <<win, argVars, now, polls, ext, rhVars, waitVars, was_maximized, ms_ret,
                   eoVars, exitCode, hist>>

\* return to the caller: run_headless goes on to ensure_on_target, the
\* watchdog to its second rect(hwnd)
MsReturn(h) ==
    /\ pc' = IF ms_ret = "rh" THEN "eo_init" ELSE "eo_rect2"
    /\ hist' = [h EXCEPT !.initDone = IF ms_ret = "rh" THEN h.seqOk ELSE @]
    /\ UNCHANGED exitCode

MsSetPos ==
    /\ pc = "ms_setpos"
    /\ LET wa == workarea_for_hmon(hmon_target) IN
       IF ~win[hwnd].alive
       THEN Raise /\ UNCHANGED win
       ELSE /\ win' = SetWindowPos(win, hwnd, wa[1] + 20, wa[2] + 20, ms_size[1], ms_size[2])
            /\ MsReturn(Applied("move"))
    /\ UNCHANGED <<argVars, now, polls, ext, rhVars, waitVars, msVars, eoVars>>

MsPark ==
    /\ pc = "ms_park"
    /\ LET p == ParkRect(workarea_for_hmon(hmon_target)) IN
       IF ~win[hwnd].alive
       THEN Raise /\ UNCHANGED <<win, now>>
       ELSE /\ win' = SetWindowPos(win, hwnd, p[1], p[2], p[3], p[4])
            /\ now' = now + 20
            /\ hist' = Applied("park")
            /\ pc' = "ms_final"
            /\ UNCHANGED exitCode
    /\ UNCHANGED <<argVars, polls, ext, rhVars, waitVars, msVars, eoVars>>

MsFinal ==
    /\ pc = "ms_final"
    /\ LET f == FillRect(workarea_for_hmon(hmon_target)) IN
       IF mode = "maximize"
       THEN /\ win' = ShowMaximized(win, hwnd)
            /\ MsReturn(Applied("maximize"))
       ELSE IF ~win[hwnd].alive
       THEN Raise /\ UNCHANGED win
       ELSE /\ win' = SetWindowPos(win, hwnd, f[1], f[2], f[3], f[4])
            /\ MsReturn(Applied("fill"))
    /\ UNCHANGED <<argVars, now, polls, ext, rhVars, waitVars, msVars, eoVars>>

(***************************************************************************)
(* ensure_on_target(hwnd, hmon_target, mode, observe)                      *)
(***************************************************************************)
EoInit ==
    /\ pc = "eo_init"
    /\ until' = now + Max(0, observe) * 1000
    /\ last' = rect(win, hwnd)
    /\ polls' = 0
    /\ hist' = [hist EXCEPT !.watching = TRUE, !.applied_rect = rect(win, hwnd)]
    /\ pc' = "eo_loop"
    /\ UNCHANGED <<win, argVars, now, ext, rhVars, waitVars, msVars, cur_hmon, cur_rect,
                   exitCode>>

\* hwnd and IsWindow(hwnd) and IsWindowVisible(hwnd)
StillThere(w, h) == h # NoHwnd /\ w[h].alive /\ w[h].visible

\* the loop is entered at the deadline too
BeforeUntil_Inclusive(t, u) == t <= u

\* time.time() < until
BeforeUntil(t, u) == t < u

\* the loop test and the validity test; returning from ensure_on_target ends
\* run_headless, and main exits with code 0
EoLoop ==
    /\ pc = "eo_loop"
    /\ IF ~BeforeUntil(now, until) THEN Exit(0, "ok")
       ELSE IF ~StillThere(win, hwnd) THEN Exit(0, "ok")
       ELSE pc' = "eo_mon" /\ UNCHANGED <<exitCode, hist>>
    /\ UNCHANGED <<win, argVars, now, polls, ext, rhVars, waitVars, msVars, eoVars>>

\* MonitorFromWindow(hwnd, 2); any monitor for a handle that is no longer a window
EoMon ==
    /\ pc = "eo_mon"
    /\ IF win[hwnd].alive
       THEN cur_hmon' = MonitorFromWindow(win, hwnd)
       ELSE cur_hmon' \in HMons
    /\ hist' = [hist EXCEPT !.offTarget = /\ win[hwnd].alive /\ win[hwnd].visible
                                          /\ MonitorFromWindow(win, hwnd) # hmon_target]
    /\ pc' = "eo_rect"
    /\ UNCHANGED <<win, argVars, now, polls, ext, rhVars, waitVars, msVars, until, last,
                   cur_rect, exitCode>>

\* a watchdog that looks at the rectangle only
NeedsPlacement_RectOnly(hm, target, cur, prev) == rect_changed(cur, prev)

\* the watchdog places the window again
NeedsPlacement(hm, target, cur, prev) == hm # target \/ rect_changed(cur, prev)

\* the rectangle the next poll compares with, after a poll that did not place
NextLast(cur, prev) == cur

EoRect ==
    /\ pc = "eo_rect"
    /\ LET cur == rect(win, hwnd) IN
       /\ cur_rect' = cur
       /\ IF NeedsPlacement(cur_hmon, hmon_target, cur, last)
          THEN /\ pc' = "ms_placement"
               /\ ms_ret' = "eo"
               /\ last' = last
               /\ hist' = [hist EXCEPT !.placeCalls = @ + 1,
                                       !.placedOn = @ \cup {hwnd},
                                       !.trigger = IF cur_hmon # hmon_target THEN "monitor" ELSE "rect",
                                       !.touched = FALSE, !.seqOk = TRUE, !.cmds = << >>]
          ELSE /\ pc' = "eo_sleep"
               /\ last' = NextLast(cur, last)
               /\ UNCHANGED <<ms_ret, hist>>
    /\ UNCHANGED <<win, argVars, now, polls, ext, rhVars, waitVars, was_maximized, ms_size,
                   until, cur_hmon, exitCode>>

EoRect2 ==
    /\ pc = "eo_rect2"
    /\ cur_rect' = rect(win, hwnd)
    /\ last' = rect(win, hwnd)
    /\ hist' = [hist EXCEPT !.applied_rect = rect(win, hwnd)]
    /\ pc' = "eo_sleep"
    /\ UNCHANGED <<win, argVars, now, polls, ext, rhVars, waitVars, msVars, until, cur_hmon,
                   exitCode>>

EoSleep ==
    /\ pc = "eo_sleep"
    /\ Sleep(until)
    /\ pc' = "eo_loop"
    /\ UNCHANGED <<win, argVars, ext, rhVars, waitVars, msVars, eoVars, exitCode, hist>>

(***************************************************************************)
(* Other processes: windows appear, move, are hidden and are destroyed     *)
(* while the program runs.                                                 *)
(***************************************************************************)
MoveDeltas == {-1920, 3, 1920}

ExtEnabled == hist.launched /\ pc # "exit" /\ ext < MaxExt

ExtNote(h) ==
    [hist EXCEPT !.touched = @ \/ h = hwnd,
                 !.lost = @]

ExtFrame ==
    /\ ext' = ext + 1
    /\ UNCHANGED <<argVars, pc, now, polls, rhVars, waitVars, msVars, eoVars, exitCode>>

ExtCreate(h) ==
    /\ ExtEnabled
    /\ ~win[h].alive /\ ~win[h].gone
    /\ win' = [win EXCEPT ![h].alive = TRUE, ![h].visible = TRUE]
    /\ hist' = ExtNote(h)
    /\ ExtFrame

ExtDestroy(h) ==
    /\ ExtEnabled
    /\ win[h].alive
    /\ win' = [win EXCEPT ![h].alive = FALSE, ![h].visible = FALSE, ![h].gone = TRUE]
    /\ hist' = [ExtNote(h) EXCEPT !.lost = @ \/ (hist.watching /\ h = hwnd)]
    /\ ExtFrame

ExtHide(h) ==
    /\ ExtEnabled
    /\ win[h].alive /\ win[h].visible
    /\ win' = [win EXCEPT ![h].visible = FALSE]
    /\ hist' = [ExtNote(h) EXCEPT !.lost = @ \/ (hist.watching /\ h = hwnd)]
    /\ ExtFrame

Shift(r, dx) == <<r[1] + dx, r[2], r[3] + dx, r[4]>>

\* only the moves of a window the program has selected are of interest
ExtMove(h, dx) ==
    /\ ExtEnabled
    /\ h \in {cand, hwnd}
    /\ win[h].alive /\ win[h].visible
    /\ win[h].rect[1] + dx >= -1920 /\ win[h].rect[3] + dx <= 5760
    /\ win' = [win EXCEPT ![h].rect = Shift(@, dx),
                          ![h].normal = IF win[h].show = "normal" THEN Shift(win[h].rect, dx) ELSE @]
    /\ hist' = ExtNote(h)
    /\ ExtFrame

Next ==
    \/ Main
    \/ RhEnum
    \/ RhSnapshot
    \/ RhPopen
    \/ RhInspect
    \/ RhChildren
    \/ RhPrimary
    \/ WaitPoll
    \/ WaitSleep
    \/ RhGot
    \/ MsPlacement
    \/ MsShow
    \/ MsRect
    \/ MsSetPos
    \/ MsPark
    \/ MsFinal
    \/ EoInit
    \/ EoLoop
    \/ EoMon
    \/ EoRect
    \/ EoRect2
    \/ EoSleep
    \/ \E h \in Handles : ExtCreate(h)
    \/ \E h \in Handles : ExtDestroy(h)
    \/ \E h \in Handles : ExtHide(h)
    \/ \E h \in Handles, dx \in MoveDeltas : ExtMove(h, dx)

Spec == Init /\ [][Next]_vars

(***************************************************************************)
(* The acquisition of run_headless under the stability policy              *)
(* (EARLY_MOVE_ON_DETECT = False), from the call of the primary attempt to *)
(* the outcome of the acquisition.                                         *)
(***************************************************************************)
InitStable ==
    /\ win \in InitTables
    /\ exeIsFile = TRUE
    /\ monitorArg = <<0>>
    /\ mode = DEFAULT_MODE
    /\ observe = DEFAULT_OBSERVE
    /\ early = FALSE
    /\ pc = "rh_primary"
    /\ now = 15 * 50
    /\ polls = 0
    /\ ext = 0
    /\ attempt = "none"
    /\ before = list_top_windows(win)
    /\ pid_set \in { {ParentPid}, {ParentPid, ChildPid} }
    /\ hmon_target = enum_monitors_sorted[1].hmon
    /\ deadline = 0
    /\ cand = NoHwnd
    /\ w_hwnd = NoHwnd
    /\ last_rect = NoRect
    /\ stable_time = 0
    /\ hwnd = NoHwnd
    /\ was_maximized = FALSE
    /\ ms_size = <<0, 0>>
    /\ ms_ret = ""
    /\ until = 0
    /\ last = NoRect
    /\ cur_hmon = 0
    /\ cur_rect = NoRect
    /\ exitCode = Running
    /\ gui = GuiIdle
    /\ fn = FnIdle
    /\ hist = [InitHist EXCEPT !.launched = TRUE]

NextStable ==
    \/ RhPrimary
    \/ WaitPoll
    \/ WaitRect
    \/ WaitSleep
    \/ RhGot
    \/ \E h \in Handles : ExtCreate(h)
    \/ \E h \in Handles : ExtDestroy(h)
    \/ \E h \in Handles : ExtHide(h)
    \/ \E h \in Handles, dx \in MoveDeltas : ExtMove(h, dx)

SpecStable == InitStable /\ [][NextStable]_vars

TypeOK ==
    /\ pc \in {"main", "rh_enum", "rh_before", "rh_popen", "rh_inspect", "rh_children",
               "rh_primary", "w_loop", "w_rect", "w_sleep", "rh_got", "ms_placement",
               "ms_show", "ms_rect", "ms_setpos", "ms_park", "ms_final", "eo_init",
               "eo_loop", "eo_mon", "eo_rect", "eo_rect2", "eo_sleep", "exit",
               "scan", "scanned", "gui", "park", "parked"}
    /\ exitCode \in {Running, 0, 1, 2}
    /\ hwnd \in Handles \cup {NoHwnd}

(***************************************************************************)
(* The polling loops under an environment that never rests: from the call  *)
(* of the primary attempt on, under either policy, the main window of the  *)
(* application is shown, hidden and moved between the monitors without     *)
(* limit.  The process of the program is scheduled again and again (weak   *)
(* fairness of its steps).  Placement and watchdog do not read the policy; *)
(* they are run after the early-detect acquisition only.                   *)
(***************************************************************************)
InitLive ==
    /\ win = [h \in Handles |-> IF h = 1 THEN Window(FALSE, ChildPid, ExeBase, AppRect)
                                ELSE Window(FALSE, OtherPid, OtherExe, OtherRect)]
    /\ exeIsFile = TRUE
    /\ monitorArg = <<0>>
    /\ early \in BOOLEAN
    /\ mode \in (IF early THEN Modes ELSE {DEFAULT_MODE})
    /\ observe = DEFAULT_OBSERVE
    /\ pc = "rh_primary"
    /\ now = 15 * 50
    /\ polls = 0
    /\ ext = 0
    /\ attempt = "none"
    /\ before = list_top_windows(win)
    /\ pid_set = {ParentPid, ChildPid}
    /\ hmon_target = enum_monitors_sorted[1].hmon
    /\ deadline = 0
    /\ cand = NoHwnd
    /\ w_hwnd = NoHwnd
    /\ last_rect = NoRect
    /\ stable_time = 0
    /\ hwnd = NoHwnd
    /\ was_maximized = FALSE
    /\ ms_size = <<0, 0>>
    /\ ms_ret = ""
    /\ until = 0
    /\ last = NoRect
    /\ cur_hmon = 0
    /\ cur_rect = NoRect
    /\ exitCode = Running
    /\ gui = GuiIdle
    /\ fn = FnIdle
    /\ hist = [InitHist EXCEPT !.launched = TRUE]

LiveFrame ==
    UNCHANGED <<argVars, pc, now, polls, ext, rhVars, waitVars, msVars, eoVars, exitCode>>

\* the application creates its main window
LiveCreate ==
    /\ pc # "exit"
    /\ ~win[1].alive
    /\ win' = [win EXCEPT ![1].alive = TRUE, ![1].visible = TRUE]
    /\ hist' = ExtNote(1)
    /\ LiveFrame

\* the application hides its main window or shows it again
LiveToggle ==
    /\ pc # "exit"
    /\ win[1].alive
    /\ win' = [win EXCEPT ![1].visible = ~@]
    /\ hist' = ExtNote(1)
    /\ LiveFrame

\* the application moves its main window by the width of a monitor
LiveMove(dx) ==
    /\ pc # "exit"
    /\ win[1].alive /\ win[1].visible
    /\ win[1].rect[1] + dx >= 0 /\ win[1].rect[3] + dx <= 3840
    /\ win' = [win EXCEPT ![1].rect = Shift(@, dx),
                          ![1].normal = IF win[1].show = "normal" THEN Shift(win[1].rect, dx) ELSE @]
    /\ hist' = ExtNote(1)
    /\ LiveFrame

\* the steps of the acquisition
Acquire ==
    \/ RhPrimary
    \/ WaitPoll
    \/ WaitRect
    \/ WaitSleep
    \/ RhGot

\* the steps of the placement and of the watchdog
Watch ==
    \/ MsPlacement
    \/ MsShow
    \/ MsRect
    \/ MsSetPos
    \/ MsPark
    \/ MsFinal
    \/ EoInit
    \/ EoLoop
    \/ EoMon
    \/ EoRect
    \/ EoRect2
    \/ EoSleep

\* the steps of the program
Program == Acquire \/ (early /\ Watch)

NextLive ==
    \/ Program
    \/ LiveCreate
    \/ LiveToggle
    \/ \E dx \in {-1920, 1920} : LiveMove(dx)

SpecLive == InitLive /\ [][NextLive]_vars /\ WF_vars(Program)

(***************************************************************************)
(* One call of the scanner on an arbitrary desktop, with the arguments of  *)
(* select() (attempt "primary") or of select_new_only() ("relaxed").       *)
(***************************************************************************)
ScanStyles ==
    { [style |-> WS_OVERLAPPEDWINDOW, tool |-> FALSE],
      [style |-> WS_OVERLAPPEDWINDOW, tool |-> TRUE],
      [style |-> WS_SYSMENU, tool |-> FALSE],
      [style |-> WS_POPUP, tool |-> FALSE] }

ScanRects ==
    { <<0, 0, 199, 400>>, <<0, 0, 400, 149>>, <<100, 100, 900, 700>>,
      <<0, 0, 600, 800>>, <<2000, 100, 3000, 800>> }

ScanWindows ==
    { [alive |-> TRUE, gone |-> FALSE, visible |-> v, style |-> st.style, tool |-> st.tool,
       rect |-> r, normal |-> r, show |-> "normal", pid |-> p, name |-> n] :
        v \in BOOLEAN, st \in ScanStyles, r \in ScanRects,
        p \in {ChildPid, OtherPid}, n \in {ExeBase, OtherExe} }

InitScan ==
    /\ win \in [Handles -> ScanWindows]
    /\ attempt \in {"primary", "relaxed"}
    /\ before \in SUBSET Handles
    /\ pid_set \in { {ParentPid}, {ParentPid, ChildPid} }
    /\ pc = "scan"
    /\ exeIsFile = TRUE
    /\ monitorArg = <<0>>
    /\ mode = DEFAULT_MODE
    /\ observe = DEFAULT_OBSERVE
    /\ early = EARLY_MOVE_ON_DETECT
    /\ now = 0
    /\ polls = 0
    /\ ext = 0
    /\ hmon_target = 0
    /\ deadline = 0
    /\ cand = NoHwnd
    /\ w_hwnd = NoHwnd
    /\ last_rect = NoRect
    /\ stable_time = 0
    /\ hwnd = NoHwnd
    /\ was_maximized = FALSE
    /\ ms_size = <<0, 0>>
    /\ ms_ret = ""
    /\ until = 0
    /\ last = NoRect
    /\ cur_hmon = 0
    /\ cur_rect = NoRect
    /\ exitCode = Running
    /\ gui = GuiIdle
    /\ fn = FnIdle
    /\ hist = InitHist

Scan ==
    /\ pc = "scan"
    /\ cand' = select(win)
    /\ pc' = "scanned"
    /\ UNCHANGED <<win, argVars, now, polls, ext, rhVars, deadline, w_hwnd, last_rect,
                   stable_time, msVars, eoVars, exitCode, hist>>

NextScan == Scan

SpecScan == InitScan /\ [][NextScan]_vars

(***************************************************************************)
(* move_and_set on its own: one window in any show state and position, a   *)
(* target monitor and a mode; nothing else touches the window.  fn.arg is  *)
(* <<show state, rectangle, restored rectangle>> of the window when the    *)
(* first call starts, fn.res is <<show state, rectangle>> when the first   *)
(* call has returned and the second call starts.                           *)
(***************************************************************************)
\* GetWindowRect of a minimized window
MinimizedRect == <<-32000, -32000, -31840, -31972>>
SmallRect == <<100, 100, 350, 280>>
WideRect == <<-50, -50, 3000, 1200>>
PlaceRects == {AppRect, OtherRect, SmallRect, WideRect}
ShowStates == {"normal", "max", "min"}

\* a window whose restored rectangle is r
PlaceWindow(show, r) ==
    [Window(TRUE, ChildPid, ExeBase, r) EXCEPT
        !.show = show,
        !.rect = CASE show = "normal" -> r
                   [] show = "max" -> workarea_for_hmon(MonitorFromRect(r))
                   [] show = "min" -> MinimizedRect]

InitPlace ==
    /\ \E show \in ShowStates, r \in PlaceRects :
          /\ win = [h \in Handles |-> IF h = 1 THEN PlaceWindow(show, r)
                                      ELSE Window(FALSE, OtherPid, OtherExe, OtherRect)]
          /\ fn = [arg |-> <<show, win[1].rect, r>>, res |-> NoRect]
    /\ exeIsFile = TRUE
    /\ monitorArg = NoArg
    /\ mode \in Modes
    /\ observe = DEFAULT_OBSERVE
    /\ early = EARLY_MOVE_ON_DETECT
    /\ pc = "ms_placement"
    /\ now = 0
    /\ polls = 0
    /\ ext = 0
    /\ attempt = "primary"
    /\ before = {}
    /\ pid_set = {ParentPid, ChildPid}
    /\ hmon_target \in HMons
    /\ deadline = 0
    /\ cand = NoHwnd
    /\ w_hwnd = NoHwnd
    /\ last_rect = NoRect
    /\ stable_time = 0
    /\ hwnd = 1
    /\ was_maximized = FALSE
    /\ ms_size = <<0, 0>>
    /\ ms_ret = "rh"
    /\ until = 0
    /\ last = NoRect
    /\ cur_hmon = 0
    /\ cur_rect = NoRect
    /\ exitCode = Running
    /\ gui = GuiIdle
    /\ hist = [InitHist EXCEPT !.launched = TRUE, !.placeCalls = 1, !.placedOn = {1},
                               !.seqOk = TRUE]

\* move_and_set(hwnd, hmon_target, mode) is called again when it has returned
PlaceAgain ==
    /\ pc = "eo_init"
    /\ fn.res = NoRect
    /\ fn' = [fn EXCEPT !.res = <<win[hwnd].show, win[hwnd].rect>>]
    /\ pc' = "ms_placement"
    /\ hist' = [hist EXCEPT !.placeCalls = @ + 1, !.seqOk = TRUE, !.cmds = << >>]
    /\ UNCHANGED <<win, exeIsFile, monitorArg, mode, observe, early, gui, now, polls, ext,
                   rhVars, waitVars, msVars, eoVars, exitCode>>

NextPlace ==
    \/ MsPlacement
    \/ MsShow
    \/ MsRect
    \/ MsSetPos
    \/ MsPark
    \/ MsFinal
    \/ PlaceAgain

SpecPlace == InitPlace /\ [][NextPlace]_vars

(***************************************************************************)
(* The park rectangle of move_and_set for the work area of any monitor:    *)
(* fn.arg is <<wa_l, wa_t, wa_r, wa_b>>, fn.res becomes                    *)
(* <<park_x, park_y, park_w, park_h>>.                                     *)
(***************************************************************************)
WorkWidths == {640, 800, 840, 1000, 1024, 1280, 1920, 2560}
WorkHeights == {440, 560, 620, 728, 800, 1040, 1400}
WorkOrigins == {<<0, 0>>, <<1920, 0>>, <<-1280, 200>>}

WorkAreas ==
    { <<o[1], o[2], o[1] + w, o[2] + h>> : o \in WorkOrigins, w \in WorkWidths, h \in WorkHeights }

InitPark ==
    /\ win \in InitTables
    /\ fn \in { [arg |-> wa, res |-> NoRect] : wa \in WorkAreas }
    /\ pc = "park"
    /\ exeIsFile = TRUE
    /\ monitorArg = NoArg
    /\ mode = DEFAULT_MODE
    /\ observe = DEFAULT_OBSERVE
    /\ early = EARLY_MOVE_ON_DETECT
    /\ now = 0
    /\ polls = 0
    /\ ext = 0
    /\ attempt = "none"
    /\ before = {}
    /\ pid_set = {}
    /\ hmon_target = 0
    /\ deadline = 0
    /\ cand = NoHwnd
    /\ w_hwnd = NoHwnd
    /\ last_rect = NoRect
    /\ stable_time = 0
    /\ hwnd = NoHwnd
    /\ was_maximized = FALSE
    /\ ms_size = <<0, 0>>
    /\ ms_ret = ""
    /\ until = 0
    /\ last = NoRect
    /\ cur_hmon = 0
    /\ cur_rect = NoRect
    /\ exitCode = Running
    /\ gui = GuiIdle
    /\ hist = InitHist

Park ==
    /\ pc = "park"
    /\ fn' = [fn EXCEPT !.res = ParkRect(fn.arg)]
    /\ pc' = "parked"
    /\ UNCHANGED <<win, exeIsFile, monitorArg, mode, observe, early, gui, now, polls, ext,
                   rhVars, waitVars, msVars, eoVars, exitCode, hist>>

NextPark == Park

SpecPark == InitPark /\ [][NextPark]_vars

(***************************************************************************)
(* The main window.  gui.workers holds one record per LaunchWorker that    *)
(* was started: run is "running" while run_headless executes in the        *)
(* thread, "emitted" once run() has emitted a signal, "handled" once the   *)
(* connected lambda has finished; done and error count the emissions.      *)
(* gui.dialogs is the stack of open modal message boxes; the main window   *)
(* takes no input while one is open, queued signals are still delivered.   *)
(***************************************************************************)
InitGui ==
    /\ win \in InitTables
    /\ exeIsFile = TRUE
    /\ monitorArg = NoArg
    /\ mode = DEFAULT_MODE
    /\ observe = DEFAULT_OBSERVE
    /\ early = EARLY_MOVE_ON_DETECT
    /\ pc = "gui"
    /\ now = 0
    /\ polls = 0
    /\ ext = 0
    /\ attempt = "none"
    /\ before = {}
    /\ pid_set = {}
    /\ hmon_target = 0
    /\ deadline = 0
    /\ cand = NoHwnd
    /\ w_hwnd = NoHwnd
    /\ last_rect = NoRect
    /\ stable_time = 0
    /\ hwnd = NoHwnd
    /\ was_maximized = FALSE
    /\ ms_size = <<0, 0>>
    /\ ms_ret = ""
    /\ until = 0
    /\ last = NoRect
    /\ cur_hmon = 0
    /\ cur_rect = NoRect
    /\ exitCode = Running
    /\ gui = GuiIdle
    /\ fn = FnIdle
    /\ hist = InitHist

GuiFrame ==
    UNCHANGED <<win, exeIsFile, monitorArg, mode, observe, early, fn, pc, now, polls, ext,
                rhVars, waitVars, msVars, eoVars, exitCode, hist>>

\* the user edits the program path
GuiSetExe(ok) ==
    /\ gui.dialogs = << >>
    /\ gui.exeOk # ok
    /\ gui' = [gui EXCEPT !.exeOk = ok]
    /\ GuiFrame

\* the user selects a monitor in the combo box
GuiSetMonitor(i) ==
    /\ gui.dialogs = << >>
    /\ gui.idx # i
    /\ gui' = [gui EXCEPT !.idx = i]
    /\ GuiFrame

\* a started worker leaves the buttons enabled
ButtonsWhileRunning_Enabled == TRUE

\* the argument of the two setEnabled calls of _on_launch_now
ButtonsWhileRunning == FALSE

\* a click on "Launch Now"
OnLaunchNow ==
    /\ gui.launch_btn
    /\ gui.dialogs = << >>
    /\ Len(gui.workers) < MaxClicks
    /\ IF ~gui.exeOk \/ gui.idx < 0 \/ gui.idx >= Len(enum_monitors_sorted)
       THEN gui' = [gui EXCEPT !.dialogs = Append(@, 0)]
       ELSE gui' = [gui EXCEPT !.launch_btn = ButtonsWhileRunning,
                               !.shortcut_btn = ButtonsWhileRunning,
                               !.workers = Append(@, [run |-> "running", done |-> 0, error |-> 0])]
    /\ GuiFrame

\* a click on "Create Desktop Shortcut": every path ends in a message box
OnCreateShortcut ==
    /\ gui.shortcut_btn
    /\ gui.dialogs = << >>
    /\ gui' = [gui EXCEPT !.dialogs = Append(@, 0)]
    /\ GuiFrame

\* LaunchWorker.run: run_headless returns and done is emitted, or it raises and
\* error is emitted
WorkerRun(i) ==
    /\ i \in 1..Len(gui.workers)
    /\ gui.workers[i].run = "running"
    /\ \/ gui' = [gui EXCEPT !.workers[i].run = "emitted", !.workers[i].done = @ + 1]
       \/ gui' = [gui EXCEPT !.workers[i].run = "emitted", !.workers[i].error = @ + 1]
    /\ GuiFrame

\* the lambda connected to done or error starts: the message box of _info or
\* _error opens (dialog i belongs to worker i, dialog 0 to no worker)
SlotOpens(i) ==
    /\ i \in 1..Len(gui.workers)
    /\ gui.workers[i].run = "emitted"
    /\ gui' = [gui EXCEPT !.workers[i].run = "shown", !.dialogs = Append(@, i)]
    /\ GuiFrame

\* the user closes the top message box; the lambda of a worker goes on to
\* _enable_buttons
DialogCloses ==
    /\ gui.dialogs # << >>
    /\ LET i == gui.dialogs[Len(gui.dialogs)]
           rest == SubSeq(gui.dialogs, 1, Len(gui.dialogs) - 1)
       IN IF i = 0
          THEN gui' = [gui EXCEPT !.dialogs = rest]
          ELSE gui' = [gui EXCEPT !.dialogs = rest, !.workers[i].run = "handled",
                                  !.launch_btn = TRUE, !.shortcut_btn = TRUE]
    /\ GuiFrame

NextGui ==
    \/ \E ok \in BOOLEAN : GuiSetExe(ok)
    \/ \E i \in 0..(Len(enum_monitors_sorted) - 1) : GuiSetMonitor(i)
    \/ OnLaunchNow
    \/ OnCreateShortcut
    \/ \E i \in 1..MaxClicks : WorkerRun(i)
    \/ \E i \in 1..MaxClicks : SlotOpens(i)
    \/ DialogCloses

SpecGui == InitGui /\ [][NextGui]_vars

(***************************************************************************)
(* Properties.                                                             *)
(***************************************************************************)
\* the arguments select() passes for the running attempt
SelPids == IF attempt = "primary" THEN pid_set ELSE {}
SelExe == IF attempt = "primary" THEN ExeBase ELSE ""

\* the filtered candidates with a positive score
Eligible ==
    { h \in Handles : Filtered(win, h) /\ Score(win, h, SelPids, SelExe, before) > 0 }

\* C4: the scanner returns a filtered candidate of maximal score and, among
\* those of maximal score, of maximal width*height; it returns none exactly
\* when no filtered candidate has a score above zero.
C4_PickBest ==
    pc = "scanned" =>
        /\ (cand = NoHwnd) <=> (Eligible = {})
        /\ cand # NoHwnd =>
             /\ cand \in Eligible
             /\ \A o \in Eligible :
                  /\ Score(win, o, SelPids, SelExe, before) <= Score(win, cand, SelPids, SelExe, before)
                  /\ Score(win, o, SelPids, SelExe, before) = Score(win, cand, SelPids, SelExe, before)
                        => Area(win, o) <= Area(win, cand)

\* a scan that had to break a tie of the score by the area, in favour of the
\* window enumerated last
C4_Witness ==
    /\ pc = "scanned"
    /\ cand = 2
    /\ Eligible = {1, 2}
    /\ Score(win, 1, SelPids, SelExe, before) = Score(win, 2, SelPids, SelExe, before)
    /\ Area(win, 1) < Area(win, 2)

\* C1: under the early-detect policy the wait returns the handle of the first
\* poll whose scan was not none, no scan follows that poll, and the wait
\* returns none only if every poll of the call yielded none.
C1_EarlyDetect ==
    early =>
        /\ hist.afterHit = 0
        /\ hist.firstHit # NoHwnd => /\ pc \notin {"w_loop", "w_sleep", "w_rect"}
                                     /\ hwnd = hist.firstHit
        /\ pc = "rh_got" => /\ hwnd # NoHwnd => hist.hits = 1 /\ hwnd = hist.firstHit
                            /\ hwnd = NoHwnd => hist.hits = 0 /\ ~(now < deadline)

\* the primary attempt polled in vain at least once and then found the window
C1_Witness ==
    /\ early
    /\ pc = "rh_got"
    /\ attempt = "primary"
    /\ polls >= 1
    /\ hwnd # NoHwnd
    /\ hwnd = hist.firstHit

\* C3: the relaxed attempt is started exactly when the primary attempt returned
\* none; when both return none run_headless fails with no placement, no
\* watchdog and no third attempt; when one returns a handle, placement is
\* invoked on it, exactly once before the watchdog starts.
C3_Attempts ==
    LET res == hist.results
        decided == ~(pc = "rh_got")
    IN /\ Len(res) <= 2
       /\ hist.relaxed => Len(res) >= 1 /\ res[1] = NoHwnd
       /\ (decided /\ Len(res) >= 1 /\ res[1] = NoHwnd) => hist.relaxed
       /\ (decided /\ Len(res) = 2 /\ res[2] = NoHwnd) =>
             /\ pc = "exit" /\ exitCode = 1
             /\ hist.placeCalls = 0 /\ ~hist.watching
       /\ (decided /\ Len(res) >= 1 /\ res[Len(res)] # NoHwnd) =>
             /\ hist.placeCalls >= 1
             /\ hist.placedOn = {res[Len(res)]}
       /\ hist.placeCalls >= 1 => Len(res) >= 1 /\ res[Len(res)] # NoHwnd
       /\ pc = "eo_init" => hist.placeCalls = 1
       /\ hist.watching => hist.placeCalls >= 1

\* the primary attempt timed out, the relaxed attempt found a window, and the
\* watchdog is about to start after the one placement
C3_Witness ==
    /\ pc = "eo_init"
    /\ hist.relaxed
    /\ Len(hist.results) = 2
    /\ hist.results[1] = NoHwnd
    /\ hist.results[2] = hwnd
    /\ hist.placeCalls = 1

\* C5: when the tracked window is destroyed or hidden by another process
\* during the observation period, ensure_on_target stops without an error and
\* run_headless completes successfully.
C5_WatchdogStopsSilently ==
    (pc = "exit" /\ hist.lost) => exitCode = 0

\* the three ways of giving an invalid argument
BadExe == ~exeIsFile
MissingMonitor == monitorArg = NoArg
BadMonitor == monitorArg # NoArg /\ (monitorArg[1] < 0 \/ monitorArg[1] >= Len(MonitorsUnsorted))

\* C6: in every watchdog poll where the window is valid and visible, placement
\* is invoked again if the rectangle differs by more than 3 px on an edge from
\* the rectangle recorded right after the most recent placement.
C6_DriftFromLastApplied ==
    [][ ( /\ pc = "eo_rect" /\ pc' # "eo_rect"
          /\ StillThere(win, hwnd)
          /\ \/ hist.applied_rect = NoRect
             \/ \E i \in 1..4 : \/ win[hwnd].rect[i] - hist.applied_rect[i] > 3
                                \/ hist.applied_rect[i] - win[hwnd].rect[i] > 3 )
        => pc' = "ms_placement" ]_vars

\* the placement property of a mode
PlacementHolds(w, h, target, m) ==
    LET wa == MonOf(target).work IN
    /\ w[h].alive
    /\ m = "workarea" => /\ w[h].show # "max"
                         /\ \A i \in 1..4 : w[h].rect[i] - wa[i] \in -3..3
    /\ m = "maximize" => /\ w[h].show = "max"
                         /\ MonitorFromRect(w[h].rect) = target
    /\ m = "normal" => /\ w[h].rect[1] = wa[1] + 20
                       /\ w[h].rect[2] = wa[2] + 20

\* C7: a poll that finds the valid, visible window on another monitor than the
\* target invokes placement again, and when that placement returns (nothing
\* else having touched the window meanwhile) the window satisfies the placement
\* property of the mode on the target monitor.
C7_OffTargetCorrected ==
    /\ [][ (pc = "eo_rect" /\ pc' # "eo_rect" /\ hist.offTarget)
             => (pc' = "ms_placement" /\ ms_ret' = "eo") ]_vars
    /\ [](( pc = "eo_rect2" /\ hist.trigger = "monitor" /\ ~hist.touched )
             => PlacementHolds(win, hwnd, hmon_target, mode))

\* the watchdog found the window on the other monitor with the rectangle it
\* had recorded, and the placement it invoked has returned
C7_Witness ==
    /\ pc = "eo_rect2"
    /\ hist.trigger = "monitor"
    /\ ~hist.touched
    /\ hist.placeCalls >= 2
    /\ PlacementHolds(win, hwnd, hmon_target, mode)

\* C8: exit code 2 in every invalid-argument case, 1 only for a runtime failure
\* of launch, acquisition or placement, 0 only after placement and watchdog.
C8_ExitCodes ==
    pc = "exit" =>
        /\ (BadExe \/ MissingMonitor \/ BadMonitor) => exitCode = 2
        /\ exitCode = 1 => ~(BadExe \/ MissingMonitor \/ BadMonitor)
        /\ exitCode = 0 => hist.watching /\ hist.placeCalls >= 1

\* C9: with a monitor index out of range or an executable path that is not a
\* file, the operation fails and no process is launched and no scan is made.
C9_FailsBeforeLaunch ==
    (BadExe \/ BadMonitor) =>
        /\ ~hist.launched
        /\ ~hist.scanned
        /\ pc \in {"main", "rh_enum", "exit"}
        /\ pc = "exit" => exitCode \in {1, 2}

\* the index equal to the number of monitors was refused
C9_Witness ==
    /\ pc = "exit"
    /\ exeIsFile
    /\ monitorArg = <<2>>
    /\ exitCode # 0
    /\ ~hist.launched

\* C10: when run_headless reports failure no placement command has been applied
\* to any window, and when it reports success the initial placement sequence
\* ran to completion on the acquired window.
C10_NoPartialSuccess ==
    pc = "exit" =>
        /\ exitCode # 0 => ~hist.applied
        /\ exitCode = 0 => hist.initDone

\* C2: under the stability policy the accumulated stable duration is reset to
\* zero at every poll whose selected handle differs from the tracked handle or
\* whose rectangle cannot be read or differs by more than 3 px on an edge from
\* the baseline, and a handle is returned only after at least 400 / 50 = 8
\* consecutive counted polls of that handle within tolerance of the baseline.
C2_StabilityPolicy ==
    /\ [][ ( /\ ~early /\ pc = "w_rect" /\ pc' # "w_rect"
             /\ \/ cand # w_hwnd
                \/ ~win[cand].alive
                \/ last_rect = NoRect
                \/ \E i \in 1..4 : \/ win[cand].rect[i] - last_rect[i] > 3
                                   \/ last_rect[i] - win[cand].rect[i] > 3 )
           => stable_time' = 0 ]_vars
    /\ []( (~early /\ pc = "rh_got" /\ hwnd # NoHwnd)
           => /\ hist.counted >= STABLE_MS_BEFORE_MOVE \div POLL_INTERVAL
              /\ hwnd = w_hwnd
              /\ hwnd = cand )

\* the tracked handle changed during the wait, and the new one was then
\* returned after its run of counted polls
C2_Witness ==
    /\ ~early
    /\ pc = "rh_got"
    /\ hwnd # NoHwnd
    /\ hist.firstHit # NoHwnd
    /\ hist.firstHit # hwnd
    /\ hist.counted >= STABLE_MS_BEFORE_MOVE \div POLL_INTERVAL

\* C11: at most one LaunchWorker pipeline runs at any time; the launch and
\* shortcut buttons are disabled while a worker runs and are enabled again
\* only after that worker has emitted exactly one of done and error.
C11_OneWorker ==
    LET ws == gui.workers
        running == { i \in 1..Len(ws) : ws[i].run = "running" }
    IN /\ Cardinality(running) <= 1
       /\ running # {} => ~gui.launch_btn /\ ~gui.shortcut_btn
       /\ (gui.launch_btn \/ gui.shortcut_btn) =>
             \A i \in 1..Len(ws) : ws[i].run = "handled" /\ ws[i].done + ws[i].error = 1

\* a second worker runs after the first one was handled
C11_Witness ==
    /\ Len(gui.workers) = 2
    /\ gui.workers[1].run = "handled"
    /\ gui.workers[2].run = "running"
    /\ ~gui.launch_btn

\* move_and_set has returned to its caller
Placed == pc = "eo_init"

\* C12: with mode workarea, whatever the show state and position the window
\* had, when move_and_set has returned the rectangle of the window is the
\* work area of the target monitor within 3 px per edge and the window is not
\* maximized.
C12_WorkareaFills ==
    (mode = "workarea" /\ Placed) =>
        /\ ~rect_changed(rect(win, hwnd), workarea_for_hmon(hmon_target))
        /\ win[hwnd].show = "normal"

\* a minimized window was placed on the second monitor
C12_Witness ==
    /\ mode = "workarea" /\ Placed
    /\ fn.arg[1] = "min"
    /\ hmon_target = enum_monitors_sorted[2].hmon
    /\ win[hwnd].rect = workarea_for_hmon(hmon_target)

\* <<width, height>> of a rectangle
SizeOf(r) == <<r[3] - r[1], r[4] - r[2]>>

\* a size that fits the work area less the margins of 20 px on each side
FitsWorkarea(sz, wa) == sz[1] <= (wa[3] - wa[1]) - 40 /\ sz[2] <= (wa[4] - wa[2]) - 40

NormalOrigin(wa) == <<wa[1] + 20, wa[2] + 20>>

C14_Idempotent ==
    (Placed /\ fn.res # NoRect) =>
        /\ ~rect_changed(rect(win, hwnd), fn.res[2])
        /\ win[hwnd].show = fn.res[1]

\* the second call has returned for a window that was maximized at first
C14_Witness ==
    /\ Placed /\ fn.res # NoRect
    /\ hist.placeCalls = 2
    /\ fn.arg[1] = "max"
    /\ mode = "maximize" /\ win[hwnd].show = "max"

\* the window commands of one call of move_and_set, in the order of the code
Commands(m) ==
    CASE m = "maximize" -> <<"show", "park", "maximize">>
      [] m = "workarea" -> <<"show", "park", "fill">>
      [] m = "normal" -> <<"show", "move">>

IsPrefix(a, b) == Len(a) <= Len(b) /\ a = SubSeq(b, 1, Len(a))

\* C19: for modes maximize and workarea the commands of one call are issued in
\* the order show-normal, park, finalize, so the maximize command or the
\* work-area resize never comes before the park of the same call; for mode
\* normal neither a park nor a maximize command is issued.
C19_CommandOrder ==
    /\ IsPrefix(hist.cmds, Commands(mode))
    /\ Placed => hist.cmds = Commands(mode)
    /\ \A i \in 1..Len(hist.cmds) :
          /\ hist.cmds[i] \in {"maximize", "fill"} => i > 1 /\ hist.cmds[i - 1] = "park"
          /\ mode = "normal" => hist.cmds[i] \notin {"park", "maximize"}

\* a maximized window went through restore, park and maximize
C19_Witness ==
    /\ Placed
    /\ fn.arg[1] = "max"
    /\ mode = "maximize"
    /\ hist.cmds = <<"show", "park", "maximize">>

\* C15: with observe 0 or negative, run_headless makes the one initial call
\* of move_and_set and the watchdog enters no poll and calls move_and_set
\* never, whatever happens to the window after the placement.
C15_ObserveZero ==
    observe <= 0 =>
        /\ pc \notin {"eo_mon", "eo_rect", "eo_rect2", "eo_sleep"}
        /\ ms_ret # "eo"
        /\ hist.placeCalls <= 1
        /\ hist.watching => hist.placeCalls = 1 /\ polls = 0
        /\ exitCode = 0 => hist.watching

\* the run ended with the window moved away after the initial placement
C15_Witness ==
    /\ observe <= 0
    /\ exitCode = 0
    /\ hist.placeCalls = 1
    /\ hist.touched
    /\ win[hwnd].alive /\ win[hwnd].visible
    /\ rect_changed(win[hwnd].rect, hist.applied_rect)

\* the signals a window matches: its process is in the owned set, its
\* executable name is the expected one, its handle is not in the snapshot
Signals(h) ==
    (IF hwnd_pid(win, h) \in pid_set THEN {"pid"} ELSE {})
        \cup (IF hwnd_exe_name(win, h) = ExeBase THEN {"name"} ELSE {})
        \cup (IF h \notin before THEN {"new"} ELSE {})

ScoreOf(h) == Score(win, h, SelPids, SelExe, before)

\* C16: of two filtered candidates of one scan, the one whose matched signals
\* are a strict superset of the other's has a score at least as high.
C16_ScoreMonotonic ==
    pc = "scanned" =>
        \A a, b \in Handles :
            (Filtered(win, a) /\ Filtered(win, b)
                /\ Signals(b) \subseteq Signals(a) /\ Signals(b) # Signals(a))
              => ScoreOf(a) >= ScoreOf(b)

\* a scan of a candidate with all three signals and one with the name only
C16_Witness ==
    /\ pc = "scanned"
    /\ attempt = "primary"
    /\ Filtered(win, 1) /\ Filtered(win, 2)
    /\ Signals(1) = {"name"}
    /\ Signals(2) = {"pid", "name", "new"}
    /\ ScoreOf(1) = 500 /\ ScoreOf(2) = 1700
    /\ cand = 2

\* C17: a window the scanner returns is visible, has every style bit of
\* WS_OVERLAPPEDWINDOW, is no tool window and measures at least 200 by 150.
C17_AllStyleBits ==
    (pc = "scanned" /\ cand # NoHwnd) =>
        /\ win[cand].visible
        /\ WS_OVERLAPPEDWINDOW \subseteq win[cand].style
        /\ ~win[cand].tool
        /\ win[cand].rect[3] - win[cand].rect[1] >= MIN_W
        /\ win[cand].rect[4] - win[cand].rect[2] >= MIN_H

\* C18: every filtered window whose handle is not in the pre-launch snapshot
\* has the 200 of novelty in its score and so is a candidate, whatever the
\* snapshot holds, the empty snapshot included.
C18_NoveltyScored ==
    pc = "scanned" =>
        \A h \in Handles :
            (Filtered(win, h) /\ h \notin before) =>
                /\ ScoreOf(h) >= 200
                /\ cand # NoHwnd

\* C20: for every work area the park rectangle is 800 to 1200 wide, 600 to
\* 900 high and lies inside the work area.
C20_ParkInside ==
    pc = "parked" =>
        LET wa == fn.arg
            p == fn.res
        IN /\ p[3] >= 800 /\ p[3] <= 1200
           /\ p[4] >= 600 /\ p[4] <= 900
           /\ p[1] >= wa[1] /\ p[2] >= wa[2]
           /\ p[1] + p[3] <= wa[3] /\ p[2] + p[4] <= wa[4]

\* C21: with a clock that advances with every sleep, the polling loops end:
\* under both policies every iteration of wait_for_stable_window that does
\* not return sleeps for the interval at least and the first loop test at or
\* after the deadline returns, so the wait returns whatever the scanner
\* selects; the first loop test of ensure_on_target at or after the end of
\* its duration returns, so the watchdog returns however the window moves.
C21_LoopsTerminate ==
    /\ [][ (pc = "w_loop" /\ ~(now < deadline) /\ pc' # pc) => pc' = "rh_got" ]_vars
    /\ [][ (pc = "eo_loop" /\ ~(now < until) /\ pc' # pc) => (pc' = "exit" /\ exitCode' = 0) ]_vars
    /\ [][ (pc \in {"w_sleep", "eo_sleep"} /\ pc' # pc) => now' >= now + POLL_INTERVAL ]_vars
    /\ [](pc \in {"w_rect", "w_sleep"} => now < deadline)
    /\ (pc = "w_loop") ~> (pc = "rh_got")
    /\ (pc = "eo_loop") ~> (pc = "exit")

\* the watchdog ran out with the window off the target monitor
C21_Witness ==
    /\ early
    /\ pc = "exit" /\ exitCode = 0
    /\ ~(now < until)
    /\ hist.placeCalls >= 3
    /\ win[hwnd].alive /\ win[hwnd].visible
    /\ MonitorFromWindow(win, hwnd) # hmon_target

\* C22: under the stability policy a poll whose scan returns none, and the
\* sleep that follows it, leave the tracked handle, the baseline rectangle and
\* the accumulated stable duration as they were; the next poll that selects
\* the tracked handle with a rectangle within tolerance of the baseline adds
\* one interval to that duration.
C22_NonePollFrame ==
    /\ [][ (~early /\ pc = "w_loop" /\ now < deadline /\ select(win) = NoHwnd /\ pc' # pc)
             => (pc' = "w_sleep" /\ UNCHANGED <<w_hwnd, last_rect, stable_time>>) ]_vars
    /\ [][ (~early /\ pc = "w_sleep")
             => UNCHANGED <<w_hwnd, last_rect, stable_time>> ]_vars
    /\ [][ (~early /\ pc = "w_rect" /\ pc' # pc /\ cand = w_hwnd /\ last_rect # NoRect
              /\ ~rect_changed(rect(win, cand), last_rect))
             => (stable_time' = stable_time + 1 /\ UNCHANGED <<w_hwnd, last_rect>>) ]_vars

\* the window was returned as stable although it was missing from the scan of
\* a poll between its first and its last counted poll
C22_Witness ==
    /\ ~early
    /\ pc = "rh_got"
    /\ hwnd = 1
    /\ hist.resumed
    /\ hist.counted >= STABLE_MS_BEFORE_MOVE \div POLL_INTERVAL

\* the result of the relaxed scan and of the primary scan on the windows of
\* this instant
RelaxedScan == pick_best_window_by(win, EnumOrder, {}, "", before)
PrimaryScan == pick_best_window_by(win, EnumOrder, pid_set, ExeBase, before)

RelaxedFound == attempt = "relaxed" /\ pc = "rh_got" /\ hwnd # NoHwnd

\* C23 as stated: on the same windows and snapshot the primary scan returns a
\* window whenever the relaxed scan does, and the window the relaxed attempt
\* returns was a candidate at no instant before the deadline of the primary
\* attempt.
C23_RelaxedOnlyAfterDeadline ==
    /\ RelaxedScan # NoHwnd => PrimaryScan # NoHwnd
    /\ RelaxedFound => hwnd \notin hist.seenBefore

\* C23 amended: on the same windows and snapshot the primary scan returns a
\* window whenever the relaxed scan does, and under the early-detect policy
\* the relaxed attempt is made, and returns a window, only when no poll of the
\* primary attempt had a candidate.
C23_RelaxedOnlyAfterLastPoll ==
    /\ RelaxedScan # NoHwnd => PrimaryScan # NoHwnd
    /\ (early /\ attempt = "relaxed") => hist.polled = {}
    /\ (early /\ RelaxedFound) => hist.results = <<NoHwnd, hwnd>>

\* the relaxed attempt returned a window that had appeared during the last
\* sleep of the primary attempt, before its deadline
C23_Witness ==
    /\ early
    /\ RelaxedFound
    /\ hwnd \in hist.seenBefore
    /\ hist.polled = {}

====
